---- MODULE Spec2Model ----
(***************************************************************************)
(* Model of filter/request_id.go: the request-id filter RequestId and its  *)
(* two id stores, MemIDStore (a map guarded by a lock) and RedisIDStore    *)
(* (a redis set driven by SADD / SREM).                                    *)
(*                                                                         *)
(* Threads are goroutines.  Every thread has a program counter named after *)
(* the source line it is about to execute.  These behaviours are          *)
(* described:                                                              *)
(*   StoreSpec  threads call Save and Remove of one store directly;        *)
(*   Spec       threads serve requests through RequestId.Filter, which is  *)
(*              then the only caller of its store;                         *)
(*   FaultSpec  is Spec over a RedisIDStore whose remote calls may fail;   *)
(*   LifeSpec   threads call Init, Destroy, Save and Remove of one store,  *)
(*              RedisLifeSpec those of the RedisIDStore alone;             *)
(*   SaveFaultSpec  threads call a RedisIDStore whose SADD may fail;       *)
(*   ReturnSpec is Spec over a MemIDStore with handlers that return;       *)
(*   BootSpec   is Spec from RequestId.Init on;                            *)
(*   LockSpec   threads call an initialized MemIDStore, fairly scheduled.  *)
(***************************************************************************)
EXTENDS Integers, Sequences, FiniteSets, TLC

\* ---------------------------------------------------------------- bounds
NumThreads == 2
MaxRound == 3

Threads == 1 .. NumThreads
NoThread == 0

\* ------------------------------------------------------------- constants
Nil == "nil"
ErrRequestIDExist == "Request id already exist"
\* the error of a remote call that was not answered
ErrTransport == "redis: connection failure"

MemIDStore == "MemIDStore"
RedisIDStore == "RedisIDStore"

RemoteIPs == {"1.2.3.4", "5.6.7.8"}
Tokens == {"abc"}

\* an id made of the token alone
ScopeKeyTokenOnly(ip, reqId) == reqId

\* line 131: id := req.RemoteIP() + ":" + reqId
ScopeKey(ip, reqId) == ip \o ":" \o reqId

Ids == {ScopeKey(ip, tok) : ip \in RemoteIPs, tok \in Tokens}

\* defval.String(&v, d): v keeps its value unless it is the empty string
DefvalString(v, d) == IF v = "" THEN d ELSE v

\* defval.Nil(&v, d): v keeps its value unless it is nil
DefvalNil(v, d) == IF v = Nil THEN d ELSE v

VARIABLES
    \* MemIDStore
    requests,       \* the keys of the map m.requests
    lock,           \* the thread holding m.lock exclusively, or NoThread
    \* RedisIDStore and the redis server behind it
    Key,            \* r.Key, the name of the redis set
    remote,         \* the server's sets, as pairs <<set name, member>>
    \* the store under use (the dynamic type of ri.Store)
    Store,
    \* threads
    pc,             \* pc[t]: the line thread t is about to execute
    id,             \* id[t]: the id argument of t's store call
    has,            \* has[t]: MemIDStore.Save's local `has`
    ret,            \* ret[t]: the error returned by t's last store call
    \* what a caller of the store can observe about the calls (history)
    round, won, freed, tag,
    \* RequestId
    PassingOnNoId,  \* ri.PassingOnNoId
    Error,          \* ri.Error
    ErrorOverlap,   \* ri.ErrorOverlap
    \* the request a thread serves
    req,            \* req[t]: method, remote ip, value of the header HeaderName
    resp,           \* resp[t]: status and body sent, NoResp until then
    invoked,        \* invoked[t]: chain(req, resp) has been called
    err,            \* err[t]: Filter's local err (line 132)
    log,            \* log[t]: what Filter has given ri.logger for the request
    \* what an observer of the filter can see of the requests (history)
    note, leaked,
    \* the life cycle, which Init and Destroy drive
    made,           \* m.requests is a map (made by make), not nil
    redis,          \* r.redis, the handle of the redis component, or Nil
    life,           \* "new" until Init has returned nil, then "ready", and
                    \* "gone" once Destroy has run (history)
    late            \* late[t]: t's call was issued while life was "gone"
                    \* and no Init has run since (history)

storeVars == <<requests, lock, Key, remote, Store>>
callVars == <<pc, id, has, ret>>
histVars == <<round, won, freed, tag>>
confVars == <<PassingOnNoId, Error, ErrorOverlap>>
reqVars == <<req, resp, invoked, err, log>>
guardVars == <<confVars, reqVars, note, leaked>>
lifeVars == <<made, redis, life, late>>
vars == <<storeVars, callVars, histVars, guardVars, lifeVars>>

SavePCs == {"Save59", "Save60", "Save61", "Save66", "Save95", "SaveRet"}
RemovePCs == {"Remove71", "Remove72", "Remove73", "Remove103", "RemoveRet"}

\* the store claims k: k is a key of the map, or a member of the redis set
Claimed(k) ==
    IF Store = MemIDStore THEN k \in requests ELSE <<Key, k>> \in remote

ClaimedIds == {k \in Ids : Claimed(k)}

\* ------------------------------------------------------------ MemIDStore
\* Save that does not wait for the lock to be free
MemSaveLockNoWait(t) ==
    /\ pc[t] = "Save59"
    /\ lock' = t
    /\ pc' = [pc EXCEPT ![t] = "Save60"]
    /\ UNCHANGED <<requests, Key, lifeVars, remote, Store, id, has, ret>>

\* line 59: m.lock.Lock()
MemSaveLock(t) ==
    /\ pc[t] = "Save59"
    /\ lock = NoThread
    /\ lock' = t
    /\ pc' = [pc EXCEPT ![t] = "Save60"]
    /\ UNCHANGED <<requests, Key, lifeVars, remote, Store, id, has, ret>>

\* Save that looks up nothing and so never finds the id
MemSaveCheckMiss(t) ==
    /\ pc[t] = "Save60"
    /\ has' = [has EXCEPT ![t] = FALSE]
    /\ pc' = [pc EXCEPT ![t] = "Save61"]
    /\ UNCHANGED <<storeVars, lifeVars, id, ret>>

\* line 60: _, has := m.requests[id]
MemSaveCheck(t) ==
    /\ pc[t] = "Save60"
    /\ has' = [has EXCEPT ![t] = id[t] \in requests]
    /\ pc' = [pc EXCEPT ![t] = "Save61"]
    /\ UNCHANGED <<storeVars, lifeVars, id, ret>>

\* a Save that makes a map of its id alone
MemSaveSetAlone(t) ==
    /\ pc[t] = "Save61"
    /\ IF has[t]
         THEN /\ ret' = [ret EXCEPT ![t] = ErrRequestIDExist]
              /\ requests' = {id[t]}
         ELSE /\ ret' = [ret EXCEPT ![t] = Nil]
              /\ requests' = {id[t]}
    /\ pc' = [pc EXCEPT ![t] = "Save66"]
    /\ UNCHANGED <<lock, Key, lifeVars, remote, Store, id, has>>

\* lines 60-65: err = ErrRequestIDExist, or m.requests[id] = struct{}{}
MemSaveSet(t) ==
    /\ pc[t] = "Save61"
    /\ IF has[t]
         THEN /\ ret' = [ret EXCEPT ![t] = ErrRequestIDExist]
              /\ UNCHANGED requests
         ELSE /\ ret' = [ret EXCEPT ![t] = Nil]
              /\ requests' = requests \cup {id[t]}
    /\ pc' = [pc EXCEPT ![t] = "Save66"]
    /\ UNCHANGED <<lock, Key, lifeVars, remote, Store, id, has>>

\* lines 66-67: m.lock.Unlock(); return
MemSaveUnlock(t) ==
    /\ pc[t] = "Save66"
    /\ lock' = NoThread
    /\ pc' = [pc EXCEPT ![t] = "SaveRet"]
    /\ UNCHANGED <<requests, Key, lifeVars, remote, Store, id, has, ret>>

\* line 71: m.lock.Lock()
MemRemoveLock(t) ==
    /\ pc[t] = "Remove71"
    /\ lock = NoThread
    /\ lock' = t
    /\ pc' = [pc EXCEPT ![t] = "Remove72"]
    /\ UNCHANGED <<requests, Key, lifeVars, remote, Store, id, has, ret>>

\* Remove that replaces the map by an empty one
MemRemoveDeleteAll(t) ==
    /\ pc[t] = "Remove72"
    /\ requests' = {}
    /\ pc' = [pc EXCEPT ![t] = "Remove73"]
    /\ UNCHANGED <<lock, Key, lifeVars, remote, Store, id, has, ret>>

\* line 72: delete(m.requests, id)
MemRemoveDelete(t) ==
    /\ pc[t] = "Remove72"
    /\ requests' = requests \ {id[t]}
    /\ pc' = [pc EXCEPT ![t] = "Remove73"]
    /\ UNCHANGED <<lock, Key, lifeVars, remote, Store, id, has, ret>>

\* a Remove that returns without Unlock
MemRemoveUnlockKeep(t) ==
    /\ pc[t] = "Remove73"
    /\ ret' = [ret EXCEPT ![t] = Nil]
    /\ pc' = [pc EXCEPT ![t] = "RemoveRet"]
    /\ UNCHANGED <<requests, lock, Key, lifeVars, remote, Store, id, has>>

\* lines 73-74: m.lock.Unlock(); return nil
MemRemoveUnlock(t) ==
    /\ pc[t] = "Remove73"
    /\ lock' = NoThread
    /\ ret' = [ret EXCEPT ![t] = Nil]
    /\ pc' = [pc EXCEPT ![t] = "RemoveRet"]
    /\ UNCHANGED <<requests, Key, lifeVars, remote, Store, id, has>>

\* ---------------------------------------------------------- RedisIDStore
\* r.redis.Exec(cmd, key, member) when the server answers: the command is
\* applied atomically and the reply is the number of members added / removed
Exec(cmd, key, member) ==
    LET present == <<key, member>> \in remote IN
    IF cmd = "SADD"
      THEN [reply |-> IF present THEN 0 ELSE 1, err |-> Nil,
            remote |-> remote \cup {<<key, member>>}]
      ELSE [reply |-> IF present THEN 1 ELSE 0, err |-> Nil,
            remote |-> remote \ {<<key, member>>}]

\* r.redis.Exec(cmd, key, member) when the server cannot be reached
ExecFail(cmd, key, member) ==
    [reply |-> 0, err |-> ErrTransport, remote |-> remote]

\* redis.Bool(reply, err): the error if there is one, else reply != 0
RedisBool(r) ==
    IF r.err # Nil THEN [success |-> FALSE, err |-> r.err]
                   ELSE [success |-> r.reply # 0, err |-> Nil]

\* a Save for which whatever is not a success is an id that exists
RedisSaveResultExist(r) ==
    LET b == RedisBool(r) IN
    IF b.success THEN Nil ELSE ErrRequestIDExist

\* lines 94-100, given the outcome r of the remote call
RedisSaveResult(r) ==
    LET b == RedisBool(r) IN
    IF b.err = Nil /\ ~b.success THEN ErrRequestIDExist ELSE b.err

\* lines 94-100: RedisIDStore.Save(id)
RedisSave(t) ==
    /\ pc[t] = "Save95"
    /\ LET r == Exec("SADD", Key, id[t]) IN
         /\ remote' = r.remote
         /\ ret' = [ret EXCEPT ![t] = RedisSaveResult(r)]
    /\ pc' = [pc EXCEPT ![t] = "SaveRet"]
    /\ UNCHANGED <<requests, lock, Key, lifeVars, Store, id, has>>

\* Remove that removes the member named by its first parameter, ip
RedisRemoveIp(t) ==
    /\ pc[t] = "Remove103"
    /\ \E ip \in RemoteIPs :
         LET r == Exec("SREM", Key, ip) IN
           /\ remote' = r.remote
           /\ ret' = [ret EXCEPT ![t] = r.err]
    /\ pc' = [pc EXCEPT ![t] = "RemoveRet"]
    /\ UNCHANGED <<requests, lock, Key, lifeVars, Store, id, has>>

\* lines 102-105: RedisIDStore.Remove(ip, id); ip is not used
RedisRemove(t) ==
    /\ pc[t] = "Remove103"
    /\ \E ip \in RemoteIPs :
         LET r == Exec("SREM", Key, id[t]) IN
           /\ remote' = r.remote
           /\ ret' = [ret EXCEPT ![t] = r.err]
    /\ pc' = [pc EXCEPT ![t] = "RemoveRet"]
    /\ UNCHANGED <<requests, lock, Key, lifeVars, Store, id, has>>

\* the first line of Store.Save / Store.Remove for the store under use
SaveEntry == IF Store = MemIDStore THEN "Save59" ELSE "Save95"
RemoveEntry == IF Store = MemIDStore THEN "Remove71" ELSE "Remove103"

\* RedisIDStore.Remove takes (ip, id) where IDStore.Remove takes (id): a
\* caller holding an id passes it as the parameter id, the one that is used.

\* ------------------------------------------------- callers of the store
\* What a caller can observe of a call is when it was issued, when it
\* returned and what it returned.  The history variables record, from these
\* events alone, the circumstances the properties of the store speak of:
\*   round[k]  the Save(k) calls issued since k was last unclaimed and idle
\*             with no Remove(k) issued since: how many were issued, how many
\*             returned nil, how many returned ErrRequestIDExist;
\*   won[k]    a Save(k) has returned nil, no Remove(k) was in progress while
\*             it ran or when it returned, and none was issued since;
\*   freed[k]  a Remove(k) issued while won[k] has returned, no Save(k) was
\*             in progress while it ran, and none was issued since;
\*   tag[t]    the circumstances of thread t's call in progress.
Saving(t, k) == pc[t] \in SavePCs /\ id[t] = k
Removing(t, k) == pc[t] \in RemovePCs /\ id[t] = k

NoRound == [on |-> FALSE, issued |-> 0, ok |-> 0, exist |-> 0]

NoTag ==
    [inRound |-> FALSE, after |-> FALSE, overlap |-> FALSE, first |-> FALSE,
     clean |-> FALSE, fromWon |-> FALSE, snapOk |-> FALSE, snap |-> {}]

\* a caller issues Store.Save(k)
CallSave(t, k) ==
    LET quiet == \A u \in Threads : ~Saving(u, k) /\ ~Removing(u, k)
        start == quiet /\ ~Claimed(k)
    IN
    /\ pc[t] = "idle"
    /\ (round[k].on /\ ~start) => round[k].issued < MaxRound
    /\ pc' = [pc EXCEPT ![t] = SaveEntry]
    /\ id' = [id EXCEPT ![t] = k]
    /\ has' = [has EXCEPT ![t] = FALSE]
    /\ ret' = [ret EXCEPT ![t] = Nil]
    /\ round' = [round EXCEPT ![k] =
                   IF start THEN [on |-> TRUE, issued |-> 1, ok |-> 0, exist |-> 0]
                   ELSE IF @.on THEN [@ EXCEPT !.issued = @ + 1]
                   ELSE @]
    /\ freed' = [freed EXCEPT ![k] = FALSE]
    /\ tag' = [u \in Threads |->
                 IF u = t
                   THEN [NoTag EXCEPT !.inRound = start \/ round[k].on,
                                      !.after = won[k],
                                      !.overlap = \E v \in Threads : Removing(v, k),
                                      !.first = freed[k] /\ quiet]
                 ELSE IF Saving(u, k)
                   THEN [tag[u] EXCEPT !.first = FALSE]
                 ELSE IF Removing(u, k)
                   THEN [tag[u] EXCEPT !.clean = FALSE, !.snapOk = FALSE, !.snap = {}]
                 ELSE [tag[u] EXCEPT !.snapOk = FALSE, !.snap = {}]]
    /\ UNCHANGED <<storeVars, lifeVars, won, guardVars>>

\* a caller issues Store.Remove(k)
CallRemove(t, k) ==
    /\ pc[t] = "idle"
    /\ pc' = [pc EXCEPT ![t] = RemoveEntry]
    /\ id' = [id EXCEPT ![t] = k]
    /\ has' = [has EXCEPT ![t] = FALSE]
    /\ ret' = [ret EXCEPT ![t] = Nil]
    /\ round' = [round EXCEPT ![k] = NoRound]
    /\ won' = [won EXCEPT ![k] = FALSE]
    /\ tag' = [u \in Threads |->
                 IF u = t
                   THEN [NoTag EXCEPT !.clean = \A v \in Threads : ~Saving(v, k),
                                      !.fromWon = won[k],
                                      !.snapOk = \A v \in Threads \ {t} : pc[v] = "idle",
                                      !.snap = IF \A v \in Threads \ {t} : pc[v] = "idle"
                                                 THEN ClaimedIds ELSE {}]
                 ELSE IF Saving(u, k)
                   THEN [tag[u] EXCEPT !.inRound = FALSE, !.overlap = TRUE]
                 ELSE [tag[u] EXCEPT !.snapOk = FALSE, !.snap = {}]]
    /\ UNCHANGED <<storeVars, lifeVars, freed, guardVars>>

\* the caller has the result of its call
EndCall(t) ==
    LET k == id[t] IN
    /\ pc[t] \in {"SaveRet", "RemoveRet"}
    /\ IF pc[t] = "SaveRet"
         THEN /\ round' = [round EXCEPT ![k] =
                             IF ~tag[t].inRound THEN @
                             ELSE IF ret[t] = Nil THEN [@ EXCEPT !.ok = @ + 1]
                             ELSE IF ret[t] = ErrRequestIDExist
                               THEN [@ EXCEPT !.exist = @ + 1]
                             ELSE @]
              /\ won' = [won EXCEPT ![k] =
                           \/ @
                           \/ /\ ret[t] = Nil
                              /\ ~tag[t].overlap
                              /\ \A u \in Threads : ~Removing(u, k)]
              /\ UNCHANGED freed
         ELSE /\ freed' = [freed EXCEPT ![k] = @ \/ (tag[t].clean /\ tag[t].fromWon)]
              /\ UNCHANGED <<round, won>>
    /\ pc' = [pc EXCEPT ![t] = "idle"]
    /\ id' = [id EXCEPT ![t] = ""]
    /\ tag' = [tag EXCEPT ![t] = NoTag]
    /\ UNCHANGED <<storeVars, lifeVars, has, ret, guardVars>>

\* a step inside a call of the MemIDStore, of the RedisIDStore
MemStep(t) ==
    /\ \/ MemSaveLock(t) \/ MemSaveCheck(t) \/ MemSaveSet(t) \/ MemSaveUnlock(t)
       \/ MemRemoveLock(t) \/ MemRemoveDelete(t) \/ MemRemoveUnlock(t)
    /\ UNCHANGED <<histVars, guardVars>>

RedisStep(t) ==
    /\ RedisSave(t) \/ RedisRemove(t)
    /\ UNCHANGED <<histVars, guardVars>>

\* the stores after Init (lines 48-52, 77-88) and the threads before any call
StoreStart ==
    /\ requests = {}
    /\ lock = NoThread
    /\ Key = DefvalString("", "RequestID")
    /\ remote = {}
    /\ pc = [t \in Threads |-> "idle"]
    /\ id = [t \in Threads |-> ""]
    /\ has = [t \in Threads |-> FALSE]
    /\ ret = [t \in Threads |-> Nil]
    /\ round = [k \in Ids |-> NoRound]
    /\ won = [k \in Ids |-> FALSE]
    /\ freed = [k \in Ids |-> FALSE]
    /\ tag = [t \in Threads |-> NoTag]
    /\ made = TRUE
    /\ redis = "redis"
    /\ life = "ready"
    /\ late = [t \in Threads |-> FALSE]

NoReq == [method |-> "", ip |-> "", header |-> ""]
NoResp == [status |-> 0, body |-> ""]
NoNote ==
    [hdrRead |-> FALSE, touched |-> FALSE, dup |-> FALSE, alone |-> FALSE,
     admitted |-> FALSE]

\* no request is being served
NoRequests ==
    /\ req = [t \in Threads |-> NoReq]
    /\ resp = [t \in Threads |-> NoResp]
    /\ invoked = [t \in Threads |-> FALSE]
    /\ err = [t \in Threads |-> Nil]
    /\ log = [t \in Threads |-> {}]
    /\ note = [t \in Threads |-> NoNote]
    /\ leaked = {}

\* lines 107-115: RequestId.Init on a RequestId configured with the given
\* fields (Nil and "" are the zero values of an unset field)
RequestIdInit(store, passing, error, overlap) ==
    /\ Store = DefvalNil(store, MemIDStore)
    /\ PassingOnNoId = passing
    /\ Error = DefvalString(error, "header value X-Request-Id can't be empty")
    /\ ErrorOverlap =
         DefvalString(overlap, "request already accepted before, please wait")

StoreInit ==
    /\ StoreStart
    /\ NoRequests
    /\ \E store \in {MemIDStore, RedisIDStore} :
         RequestIdInit(store, FALSE, "", "")

StoreNext ==
    \E t \in Threads :
        \/ \E k \in Ids : CallSave(t, k)
        \/ \E k \in Ids : CallRemove(t, k)
        \/ MemStep(t)
        \/ RedisStep(t)
        \/ EndCall(t)

StoreSpec == StoreInit /\ [][StoreNext]_vars

\* ------------------------------------------------ properties of the stores
\* the Save(k) calls of the round of k that have returned to their caller or
\* are about to, by the error e they return
Returned(k, e) ==
    {t \in Threads : Saving(t, k) /\ pc[t] = "SaveRet" /\ tag[t].inRound
                                 /\ ret[t] = e}

\* C1 (exclusivity): of the Save(k) calls issued, in any interleaving, from a
\* state where k is unclaimed and with no Remove(k) issued since, at most one
\* returns nil, and once all have returned exactly one has returned nil and
\* all the others ErrRequestIDExist.
Exclusivity ==
    \A k \in Ids :
        round[k].on =>
            LET ok == round[k].ok + Cardinality(Returned(k, Nil))
                exist == round[k].exist + Cardinality(Returned(k, ErrRequestIDExist))
                running == {t \in Threads : Saving(t, k) /\ pc[t] # "SaveRet"}
            IN /\ ok <= 1
               /\ running = {} => (ok = 1 /\ exist = round[k].issued - 1)

\* every thread has called Save(k) on the MemIDStore before any of the calls
\* returned to its caller; one call returns nil, another ErrRequestIDExist
WitnessExclusivity ==
    \E k \in Ids :
        /\ Store = MemIDStore
        /\ round[k].on
        /\ \A t \in Threads : Saving(t, k) /\ pc[t] = "SaveRet"
        /\ \E t, u \in Threads : ret[t] = Nil /\ ret[u] = ErrRequestIDExist

\* C2 (claim until release): a Save(k) issued after a Save(k) has returned
\* nil, with no Remove(k) in progress or issued from the time that Save ran
\* until this one returns, returns ErrRequestIDExist.
ClaimUntilRelease ==
    \A t \in Threads :
        (pc[t] = "SaveRet" /\ tag[t].after /\ ~tag[t].overlap)
            => ret[t] = ErrRequestIDExist

\* a Save on the MemIDStore issued after a successful Save of the same id,
\* with no Remove since, is about to return ErrRequestIDExist
WitnessClaimUntilRelease ==
    \E t \in Threads :
        /\ Store = MemIDStore
        /\ pc[t] = "SaveRet" /\ tag[t].after /\ ~tag[t].overlap
        /\ ret[t] = ErrRequestIDExist

\* C4 (release enables reuse): when a Remove(k) that follows a successful
\* Save(k) returns, with no Save(k) in progress meanwhile, k is unclaimed;
\* and the next Save(k), alone on k, returns nil.  For either store.
ReleaseEnablesReuse ==
    \A t \in Threads :
        /\ (pc[t] = "RemoveRet" /\ tag[t].clean /\ tag[t].fromWon)
               => ~Claimed(id[t])
        /\ (pc[t] = "SaveRet" /\ tag[t].first) => ret[t] = Nil

\* on the RedisIDStore, the first Save(k) after a Save(k) that returned nil
\* and the Remove(k) that followed it is about to return nil
WitnessReleaseEnablesReuse ==
    \E t \in Threads :
        /\ Store = RedisIDStore
        /\ pc[t] = "SaveRet" /\ tag[t].first /\ ret[t] = Nil

\* C5 (idempotent removal): every Remove returns nil; a Remove(k) that ran
\* with no other call in progress leaves exactly the ids that were claimed
\* when it was issued, less k: so the claimed ids are unchanged when k was
\* not claimed, and a second Remove(k) changes nothing.
IdempotentRemoval ==
    \A t \in Threads :
        pc[t] = "RemoveRet" =>
            /\ ret[t] = Nil
            /\ tag[t].snapOk =>
                 /\ ClaimedIds = tag[t].snap \ {id[t]}
                 /\ id[t] \notin tag[t].snap => ClaimedIds = tag[t].snap

\* a Remove(k) of an id that was not claimed, while another id is claimed,
\* is about to return nil
WitnessIdempotentRemoval ==
    \E t \in Threads :
        /\ pc[t] = "RemoveRet" /\ ret[t] = Nil
        /\ tag[t].snapOk /\ id[t] \notin tag[t].snap /\ tag[t].snap # {}
        /\ ClaimedIds = tag[t].snap

\* --------------------------------------------------------------- RequestId
Methods == {"GET", "POST"}
Headers == Tokens \cup {""}

ChainPCs == {"chain119", "chain125", "chain138"}
EndPCs == {"done", "panic136", "panicChain"}

\* no method is let through unchecked
BypassNone(method) == FALSE

\* line 118: req.Method() == "GET"
Bypass(method) == method = "GET"

\* the answer to a request without token, with the message of the other case
ReplyBadRequestOverlap == [status |-> 400, body |-> ErrorOverlap]

\* lines 127-128: resp.ReportBadRequest(); resp.Send("error", ri.Error)
ReplyBadRequest == [status |-> 400, body |-> Error]

\* lines 133-134: resp.ReportForbidden(); resp.Send("error", ri.ErrorOverlap)
ReplyForbidden == [status |-> 403, body |-> ErrorOverlap]

\* a Filter that lets the request through when the id exists already
AfterSaveLax(e) ==
    IF e # Nil /\ e # ErrRequestIDExist THEN "panic" ELSE "chain"

\* a Filter that lets the request through when Save fails otherwise
AfterSaveOpen(e) ==
    IF e = ErrRequestIDExist THEN "forbidden" ELSE "chain"

\* lines 132-138: what Filter does with the error Save returned
AfterSave(e) ==
    IF e = ErrRequestIDExist THEN "forbidden"
    ELSE IF e # Nil THEN "panic"
    ELSE "chain"

\* thread u is between its call of Store.Save and the return of its call of
\* Store.Remove
Claiming(u) == pc[u] \in SavePCs \cup RemovePCs \cup {"chain138"}

\* thread u's Save has not yet returned
Undecided(u) == pc[u] \in SavePCs \ {"SaveRet"}

\* thread u serves a request of client ip with token h
SameScope(u, ip, h) == req[u].ip = ip /\ req[u].header = h

\* lines 117-132: Filter is called with a request and runs up to its first
\* call: of the chain (lines 119, 125), or of Store.Save (line 132)
Filter(t, m, ip, h) ==
    /\ pc[t] = "idle"
    /\ req' = [req EXCEPT ![t] = [method |-> m, ip |-> ip, header |-> h]]
    /\ IF Bypass(m)
         THEN /\ pc' = [pc EXCEPT ![t] = "chain119"]
              /\ invoked' = [invoked EXCEPT ![t] = TRUE]
              /\ UNCHANGED <<id, resp, note>>
       ELSE IF h = ""
         THEN /\ IF PassingOnNoId
                   THEN /\ pc' = [pc EXCEPT ![t] = "chain125"]
                        /\ invoked' = [invoked EXCEPT ![t] = TRUE]
                        /\ UNCHANGED resp
                   ELSE /\ pc' = [pc EXCEPT ![t] = "done"]
                        /\ resp' = [resp EXCEPT ![t] = ReplyBadRequest]
                        /\ UNCHANGED invoked
              /\ note' = [note EXCEPT ![t].hdrRead = TRUE]
              /\ UNCHANGED id
       ELSE /\ id' = [id EXCEPT ![t] = ScopeKey(ip, h)]
            /\ pc' = [pc EXCEPT ![t] = SaveEntry]
            /\ note' = [u \in Threads |->
                 IF u = t
                   THEN [NoNote EXCEPT
                           !.hdrRead = TRUE,
                           !.touched = TRUE,
                           !.dup = \E v \in Threads \ {t} :
                                      pc[v] = "chain138" /\ SameScope(v, ip, h),
                           !.alone = /\ <<ip, h>> \notin leaked
                                     /\ \A v \in Threads \ {t} :
                                          ~(Claiming(v) /\ SameScope(v, ip, h))]
                 ELSE IF Undecided(u) /\ SameScope(u, ip, h)
                   THEN [note[u] EXCEPT !.alone = FALSE]
                 ELSE note[u]]
            /\ UNCHANGED <<resp, invoked>>
    /\ UNCHANGED <<storeVars, lifeVars, has, ret, histVars, confVars, log, err, leaked>>

\* lines 132-138: Store.Save has returned
FilterAfterSave(t) ==
    /\ pc[t] = "SaveRet"
    /\ err' = [err EXCEPT ![t] = ret[t]]
    /\ CASE AfterSave(ret[t]) = "forbidden" ->
              /\ resp' = [resp EXCEPT ![t] = ReplyForbidden]
              /\ pc' = [pc EXCEPT ![t] = "done"]
              /\ UNCHANGED <<log, invoked, note>>
         [] AfterSave(ret[t]) = "panic" ->
              /\ log' = [log EXCEPT ![t] = @ \cup {ret[t]}]
              /\ pc' = [pc EXCEPT ![t] = "panic136"]
              /\ UNCHANGED <<resp, invoked, note>>
         [] AfterSave(ret[t]) = "chain" ->
              /\ invoked' = [invoked EXCEPT ![t] = TRUE]
              /\ note' = [note EXCEPT ![t].admitted = TRUE]
              /\ pc' = [pc EXCEPT ![t] = "chain138"]
              /\ UNCHANGED <<log, resp>>
    /\ UNCHANGED <<storeVars, lifeVars, id, has, ret, histVars, confVars, req, leaked>>

\* thread t leaves the handler it entered from line 138: the requests of the
\* same client and token whose Save is still running no longer overlap it
LeaveHandler(t) ==
    [u \in Threads |->
       IF /\ pc[t] = "chain138" /\ u # t /\ Undecided(u)
          /\ SameScope(u, req[t].ip, req[t].header)
         THEN [note[u] EXCEPT !.dup = FALSE]
         ELSE note[u]]

\* the answer of the handler; Filter never reads it
Handled == [status |-> 200, body |-> "handled"]

\* a Filter that returns when the chain has, without calling Store.Remove
HandlerReturnNoRemove(t) ==
    /\ pc[t] \in ChainPCs
    /\ resp' = [resp EXCEPT ![t] = Handled]
    /\ pc' = [pc EXCEPT ![t] = "done"]
    /\ note' = LeaveHandler(t)
    /\ UNCHANGED <<storeVars, lifeVars, id, has, ret, histVars, confVars, log, req,
                   invoked, err, leaked>>

\* lines 119, 125, 138: chain(req, resp) returns, having answered the
\* request; line 139 then calls Store.Remove(id)
HandlerReturn(t) ==
    /\ pc[t] \in ChainPCs
    /\ resp' = [resp EXCEPT ![t] = Handled]
    /\ pc' = [pc EXCEPT ![t] = IF pc[t] = "chain138" THEN RemoveEntry ELSE "done"]
    /\ note' = LeaveHandler(t)
    /\ UNCHANGED <<storeVars, lifeVars, id, has, ret, histVars, confVars, log, req,
                   invoked, err, leaked>>

\* lines 119, 125, 138: chain(req, resp) panics (as line 136 does in a
\* filter further down the chain); the panic unwinds Filter, which has no
\* deferred call
HandlerPanic(t) ==
    /\ pc[t] \in ChainPCs
    /\ pc' = [pc EXCEPT ![t] = "panicChain"]
    /\ note' = LeaveHandler(t)
    /\ leaked' = IF pc[t] = "chain138"
                   THEN leaked \cup {<<req[t].ip, req[t].header>>}
                   ELSE leaked
    /\ UNCHANGED <<storeVars, lifeVars, id, has, ret, histVars, confVars, reqVars>>

\* a Filter that treats an error of Store.Remove as it treats one of Save
FilterAfterRemoveStrict(t) ==
    /\ pc[t] = "RemoveRet"
    /\ IF ret[t] = Nil
         THEN /\ pc' = [pc EXCEPT ![t] = "done"]
              /\ UNCHANGED log
         ELSE /\ pc' = [pc EXCEPT ![t] = "panic136"]
              /\ log' = [log EXCEPT ![t] = @ \cup {ret[t]}]
    /\ UNCHANGED <<storeVars, lifeVars, id, has, ret, histVars, confVars, req, resp,
                   invoked, err, note, leaked>>

\* lines 139-142: Store.Remove has returned; its result is dropped
FilterAfterRemove(t) ==
    /\ pc[t] = "RemoveRet"
    /\ pc' = [pc EXCEPT ![t] = "done"]
    /\ UNCHANGED <<storeVars, lifeVars, id, has, ret, histVars, guardVars>>

\* the thread is done with its request and free to serve another
Finish(t) ==
    /\ pc[t] \in EndPCs
    /\ pc' = [pc EXCEPT ![t] = "idle"]
    /\ id' = [id EXCEPT ![t] = ""]
    /\ has' = [has EXCEPT ![t] = FALSE]
    /\ ret' = [ret EXCEPT ![t] = Nil]
    /\ req' = [req EXCEPT ![t] = NoReq]
    /\ resp' = [resp EXCEPT ![t] = NoResp]
    /\ invoked' = [invoked EXCEPT ![t] = FALSE]
    /\ err' = [err EXCEPT ![t] = Nil]
    /\ log' = [log EXCEPT ![t] = {}]
    /\ note' = [note EXCEPT ![t] = NoNote]
    /\ UNCHANGED <<storeVars, lifeVars, histVars, confVars, leaked>>

\* lines 94-100 when the remote call fails
RedisSaveFail(t) ==
    /\ pc[t] = "Save95"
    /\ LET r == ExecFail("SADD", Key, id[t]) IN
         /\ remote' = r.remote
         /\ ret' = [ret EXCEPT ![t] = RedisSaveResult(r)]
    /\ pc' = [pc EXCEPT ![t] = "SaveRet"]
    /\ UNCHANGED <<requests, lock, Key, lifeVars, Store, id, has, histVars, guardVars>>

\* lines 102-105 when the remote call fails: the id stays claimed
RedisRemoveFail(t) ==
    /\ pc[t] = "Remove103"
    /\ LET r == ExecFail("SREM", Key, id[t]) IN
         /\ remote' = r.remote
         /\ ret' = [ret EXCEPT ![t] = r.err]
    /\ pc' = [pc EXCEPT ![t] = "RemoveRet"]
    /\ leaked' = leaked \cup {<<req[t].ip, req[t].header>>}
    /\ UNCHANGED <<requests, lock, Key, lifeVars, Store, id, has, histVars, confVars,
                   reqVars, note>>

\* the configurations of RequestId that are tried: either store with either
\* value of PassingOnNoId, with messages left unset or set
Configs ==
    {[Store |-> Nil, PassingOnNoId |-> FALSE,
      Error |-> "", ErrorOverlap |-> ""],
     [Store |-> MemIDStore, PassingOnNoId |-> TRUE,
      Error |-> "", ErrorOverlap |-> "request in progress"],
     [Store |-> RedisIDStore, PassingOnNoId |-> FALSE,
      Error |-> "request id missing", ErrorOverlap |-> ""],
     [Store |-> RedisIDStore, PassingOnNoId |-> TRUE,
      Error |-> "request id missing", ErrorOverlap |-> "request in progress"]}

Init ==
    /\ StoreStart
    /\ NoRequests
    /\ \E c \in Configs :
         RequestIdInit(c.Store, c.PassingOnNoId, c.Error, c.ErrorOverlap)

\* a step of Filter or of the handler, outside the store
FilterStep(t) ==
    \/ \E m \in Methods, ip \in RemoteIPs, h \in Headers : Filter(t, m, ip, h)
    \/ FilterAfterSave(t)
    \/ HandlerReturn(t)
    \/ HandlerPanic(t)
    \/ FilterAfterRemove(t)
    \/ Finish(t)

Next ==
    \E t \in Threads :
        \/ FilterStep(t)
        \/ MemStep(t)
        \/ RedisStep(t)

Spec == Init /\ [][Next]_vars

FaultNext ==
    \E t \in Threads :
        \/ FilterStep(t)
        \/ RedisStep(t)
        \/ RedisSaveFail(t)
        \/ RedisRemoveFail(t)

\* RequestId over the store whose calls can fail
FaultInit == Init /\ Store = RedisIDStore

FaultSpec == FaultInit /\ [][FaultNext]_vars

\* ------------------------------------------------ properties of the filter
\* C3 (one request per ScopeKey in the handler): two requests that are not
\* GETs and carry a token are never both in the handler for the same remote
\* ip and token; a request that arrives while another of the same ip and
\* token is in its handler, and whose Save is decided before that one leaves
\* it, is answered 403 with ri.ErrorOverlap and its handler is never invoked.
GuardExclusion ==
    /\ \A t, u \in Threads :
         (t # u /\ pc[t] = "chain138" /\ pc[u] = "chain138")
             => ~SameScope(u, req[t].ip, req[t].header)
    /\ \A t \in Threads :
         note[t].dup =>
             /\ ~invoked[t]
             /\ pc[t] \in SavePCs \cup {"done"}
             /\ pc[t] = "SaveRet" => ret[t] = ErrRequestIDExist
             /\ pc[t] = "done" => resp[t] = [status |-> 403, body |-> ErrorOverlap]

\* a request has been answered 403 while the request of the same ip and
\* token that was there first is still in its handler
WitnessGuardExclusion ==
    \E t, u \in Threads :
        /\ note[t].dup /\ pc[t] = "done" /\ resp[t].status = 403
        /\ pc[u] = "chain138" /\ SameScope(u, req[t].ip, req[t].header)

\* C6 (scoping): ids of the same token and different remote ips differ; a
\* request whose remote ip and token no other request holds or is claiming
\* is admitted (its Save returns nil and its handler is invoked), whatever
\* requests of other clients with the same token are in flight.
Scoping ==
    /\ \A ip1, ip2 \in RemoteIPs, h \in Tokens :
         ip1 # ip2 => ScopeKey(ip1, h) # ScopeKey(ip2, h)
    /\ \A t \in Threads :
         note[t].alone =>
             /\ pc[t] = "SaveRet" => ret[t] = Nil
             /\ pc[t] \notin SavePCs => (invoked[t] /\ note[t].admitted)

\* two requests with the same token from different remote ips are in their
\* handlers at the same time
WitnessScoping ==
    \E t, u \in Threads :
        /\ pc[t] = "chain138" /\ pc[u] = "chain138"
        /\ req[t].header = req[u].header /\ req[t].ip # req[u].ip
        /\ note[t].alone /\ note[u].alone

\* C7 (bypass): a GET request is in the handler as soon as Filter is called,
\* with or without token and whether or not its id is claimed; Filter never
\* reads the header for it nor calls Save or Remove for it.
BypassGet ==
    \A t \in Threads :
        (pc[t] # "idle" /\ req[t].method = "GET") =>
            /\ invoked[t]
            /\ pc[t] \in {"chain119", "done", "panicChain"}
            /\ ~note[t].hdrRead
            /\ ~note[t].touched
            /\ resp[t].status \notin {400, 403}

\* a GET request with a token is in the handler while its id is claimed by
\* a request that is in the handler too
WitnessBypassGet ==
    \E t, u \in Threads :
        /\ req[t].method = "GET" /\ req[t].header # "" /\ pc[t] = "chain119"
        /\ pc[u] = "chain138" /\ SameScope(u, req[t].ip, req[t].header)
        /\ Claimed(id[u])

\* C8 (missing token): for a request that is not a GET and has no token,
\* Save and Remove are never called; its handler is invoked if and only if
\* ri.PassingOnNoId, and otherwise it is answered 400 with ri.Error.
MissingToken ==
    \A t \in Threads :
        (pc[t] # "idle" /\ req[t].method # "GET" /\ req[t].header = "") =>
            /\ ~note[t].touched
            /\ pc[t] \notin SavePCs \cup RemovePCs
            /\ invoked[t] <=> PassingOnNoId
            /\ ~PassingOnNoId =>
                 (pc[t] = "done" /\ resp[t] = [status |-> 400, body |-> Error])

\* a request without token has been answered 400 with a configured message
WitnessMissingToken ==
    \E t \in Threads :
        /\ pc[t] = "done" /\ req[t].method = "POST" /\ req[t].header = ""
        /\ ~PassingOnNoId /\ resp[t].status = 400
        /\ resp[t].body = "request id missing"

\* Save has returned to thread t an error other than ErrRequestIDExist
SaveFailed(t) ==
    \/ pc[t] = "SaveRet" /\ ret[t] \notin {Nil, ErrRequestIDExist}
    \/ err[t] \notin {Nil, ErrRequestIDExist}

\* C9 (fail closed): when Save returns an error other than ErrRequestIDExist
\* the handler is not invoked, no answer (so no 403) is sent, and Filter ends
\* in the panic of ri.logger.Panicln, which has logged the error.
FailClosed ==
    \A t \in Threads :
        SaveFailed(t) =>
            /\ ~invoked[t]
            /\ resp[t] = NoResp
            /\ pc[t] \in {"SaveRet", "panic136"}
            /\ pc[t] = "panic136" => err[t] \in log[t]

\* Filter has panicked with the transport error Save returned
WitnessFailClosed ==
    \E t \in Threads :
        /\ pc[t] = "panic136" /\ err[t] = ErrTransport /\ ErrTransport \in log[t]
        /\ ~invoked[t]

\* C10 (release after handling): a request whose Save returned nil is in the
\* handler, or else, the handler having finished with whatever outcome,
\* Filter has called Remove for its id.
ReleaseAfterHandling ==
    \A t \in Threads :
        note[t].admitted => pc[t] \in {"chain138", "done"} \cup RemovePCs

\* thread t's request was admitted and its Store.Remove has returned an error
RemoveFailed(t) == note[t].admitted /\ ret[t] # Nil

\* C11 (a failed release does not fail the request): when Remove returns an
\* error after the handler returned, Filter ends normally: the answer stays
\* the handler's, no error status is sent, nothing panics; the one effect is
\* that the id stays claimed.
ReleaseFailureHarmless ==
    \A t \in Threads :
        RemoveFailed(t) =>
            /\ pc[t] \in {"RemoveRet", "done"}
            /\ resp[t] = Handled
            /\ err[t] = Nil
            /\ Claimed(id[t])

\* Filter has finished a request whose Remove failed: the handler's answer
\* stands and the id is still a member of the redis set
WitnessReleaseFailureHarmless ==
    \E t \in Threads :
        /\ RemoveFailed(t) /\ ret[t] = ErrTransport /\ pc[t] = "done"
        /\ resp[t].status = 200 /\ <<Key, id[t]>> \in remote

\* C12 (a failed release is observable): when Remove has returned an error,
\* Filter has given the error to ri.logger by the time it finishes the
\* request.
ReleaseFailureLogged ==
    \A t \in Threads :
        (RemoveFailed(t) /\ pc[t] = "done") => ret[t] \in log[t]
\* ----------------------------------------------- life cycle of the stores
\* the error of line 81
ErrNotLoaded == "component redis isn't loaded"
\* an error of env.Component
ErrComponent == "component: not found"

\* line 78: what env.Component(component.COMP_REDIS) can return
Lookups == [comp : {Nil, "redis"}, err : {Nil, ErrComponent}]

\* the values of r.Key a RedisIDStore is constructed with
KeyConfigs == {"", "ids"}

InitPCs == {"Init49", "Init50", "Init78", "InitRet"}
DestroyPCs == {"Destroy55", "Destroy91", "DestroyRet"}
PanicPCs == {"panic63", "panicNil"}

InitEntry == IF Store = MemIDStore THEN "Init49" ELSE "Init78"
DestroyEntry == IF Store = MemIDStore THEN "Destroy55" ELSE "Destroy91"

\* sync: Unlock of unlocked RWMutex is a fatal error: the runtime ends the
\* process and with it every thread
Crashed == \E t \in Threads : pc[t] = "fatal"

\* an Init that takes the absence of the component for its presence
RedisInitResultLax(l, handle, key) ==
    IF l.err = Nil
      THEN [err |-> Nil, redis |-> l.comp, Key |-> DefvalString(key, "RequestID")]
      ELSE [err |-> l.err, redis |-> handle, Key |-> key]

\* lines 77-88, given the outcome l of env.Component: the error returned and
\* the fields r.redis and r.Key as Init leaves them
RedisInitResult(l, handle, key) ==
    IF l.err = Nil
      THEN IF l.comp = Nil
             THEN [err |-> ErrNotLoaded, redis |-> handle, Key |-> key]
             ELSE [err |-> Nil, redis |-> l.comp,
                   Key |-> DefvalString(key, "RequestID")]
      ELSE [err |-> l.err, redis |-> handle, Key |-> key]

\* a caller issues Init, Destroy, Save(k) or Remove(k) on the store: Init on
\* a store that is not ready and that no thread is initializing, Destroy on
\* one that is ready
LifeCall(t, op, k) ==
    /\ ~Crashed
    /\ pc[t] = "idle"
    /\ op = "Init" => (life # "ready" /\ \A u \in Threads : pc[u] \notin InitPCs)
    /\ op = "Destroy" => life = "ready"
    /\ pc' = [pc EXCEPT ![t] =
                CASE op = "Init" -> InitEntry
                  [] op = "Destroy" -> DestroyEntry
                  [] op = "Save" -> SaveEntry
                  [] op = "Remove" -> RemoveEntry]
    /\ id' = [id EXCEPT ![t] = IF op \in {"Save", "Remove"} THEN k ELSE ""]
    /\ has' = [has EXCEPT ![t] = FALSE]
    /\ ret' = [ret EXCEPT ![t] = Nil]
    /\ late' = [late EXCEPT ![t] = life = "gone" /\ op \in {"Save", "Remove"}]
    /\ UNCHANGED <<storeVars, histVars, guardVars, made, redis, life>>

\* the caller has the result of its call
LifeReturn(t) ==
    /\ ~Crashed
    /\ pc[t] \in {"SaveRet", "RemoveRet", "InitRet", "DestroyRet"}
    /\ pc' = [pc EXCEPT ![t] = "idle"]
    /\ id' = [id EXCEPT ![t] = ""]
    /\ late' = [late EXCEPT ![t] = FALSE]
    /\ UNCHANGED <<storeVars, has, ret, histVars, guardVars, made, redis, life>>

\* line 49: m.requests = make(map[string]struct{})
MemInitMake(t) ==
    /\ ~Crashed
    /\ pc[t] = "Init49"
    /\ requests' = {}
    /\ made' = TRUE
    /\ late' = [u \in Threads |-> FALSE]
    /\ pc' = [pc EXCEPT ![t] = "Init50"]
    /\ UNCHANGED <<lock, Key, remote, Store, id, has, ret, histVars, guardVars,
                   redis, life>>

\* lines 50-51: m.lock = sync.RWMutex{}; return nil
MemInitLock(t) ==
    /\ ~Crashed
    /\ pc[t] = "Init50"
    /\ lock' = NoThread
    /\ ret' = [ret EXCEPT ![t] = Nil]
    /\ life' = "ready"
    /\ pc' = [pc EXCEPT ![t] = "InitRet"]
    /\ UNCHANGED <<requests, Key, remote, Store, id, has, histVars, guardVars,
                   made, redis, late>>

\* line 55: m.requests = nil
MemDestroy(t) ==
    /\ ~Crashed
    /\ pc[t] = "Destroy55"
    /\ requests' = {}
    /\ made' = FALSE
    /\ life' = "gone"
    /\ pc' = [pc EXCEPT ![t] = "DestroyRet"]
    /\ UNCHANGED <<lock, Key, remote, Store, id, has, ret, histVars, guardVars,
                   redis, late>>

\* lines 60-63 on a nil map: the lookup of line 60 finds nothing, and the
\* assignment of line 63 panics (assignment to entry in nil map); Save has
\* no deferred Unlock, so the lock stays held
MemSaveNil(t) ==
    /\ ~Crashed
    /\ pc[t] = "Save61"
    /\ ~has[t] /\ ~made
    /\ pc' = [pc EXCEPT ![t] = "panic63"]
    /\ UNCHANGED <<storeVars, id, has, ret, histVars, guardVars, lifeVars>>

\* lines 66, 73: Unlock of a lock that line 50 has replaced by a fresh one
MemUnlockFatal(t) ==
    /\ ~Crashed
    /\ pc[t] \in {"Save66", "Remove73"}
    /\ lock = NoThread
    /\ pc' = [pc EXCEPT ![t] = "fatal"]
    /\ UNCHANGED <<storeVars, id, has, ret, histVars, guardVars, lifeVars>>

\* the steps of Save and Remove of a MemIDStore in any stage of its life:
\* a lookup or a delete on a nil map is that on an empty one, and Unlock
\* frees the lock whoever locked it (a RWMutex has no owner)
LifeMemStep(t) ==
    /\ ~Crashed
    /\ pc[t] = "Save61" => (made \/ has[t])
    /\ pc[t] \in {"Save66", "Remove73"} => lock # NoThread
    /\ MemStep(t)

\* lines 77-88: RedisIDStore.Init
RedisInit(t, l) ==
    /\ ~Crashed
    /\ pc[t] = "Init78"
    /\ LET r == RedisInitResult(l, redis, Key) IN
         /\ ret' = [ret EXCEPT ![t] = r.err]
         /\ redis' = r.redis
         /\ Key' = r.Key
         /\ life' = IF r.err = Nil THEN "ready" ELSE life
         /\ late' = IF r.err = Nil THEN [u \in Threads |-> FALSE] ELSE late
    /\ pc' = [pc EXCEPT ![t] = "InitRet"]
    /\ UNCHANGED <<requests, lock, remote, Store, id, has, histVars, guardVars,
                   made>>

\* line 91: r.redis = nil
RedisDestroy(t) ==
    /\ ~Crashed
    /\ pc[t] = "Destroy91"
    /\ redis' = Nil
    /\ life' = "gone"
    /\ pc' = [pc EXCEPT ![t] = "DestroyRet"]
    /\ UNCHANGED <<storeVars, id, has, ret, histVars, guardVars, made, late>>

\* lines 95, 103 with r.redis nil: r.redis.Exec dereferences the nil handle
\* and panics before any command is sent
RedisNil(t) ==
    /\ pc[t] \in {"Save95", "Remove103"}
    /\ redis = Nil
    /\ pc' = [pc EXCEPT ![t] = "panicNil"]
    /\ UNCHANGED <<storeVars, id, has, ret, histVars, guardVars, lifeVars>>

\* the steps of Save and Remove of a RedisIDStore that has its handle
LiveRedisStep(t) ==
    /\ redis # Nil
    /\ RedisStep(t)

\* a store as constructed, before Init, and the threads before any call
LifeInit ==
    /\ requests = {}
    /\ lock = NoThread
    /\ Key \in KeyConfigs
    /\ remote = {}
    /\ Store \in {MemIDStore, RedisIDStore}
    /\ pc = [t \in Threads |-> "idle"]
    /\ id = [t \in Threads |-> ""]
    /\ has = [t \in Threads |-> FALSE]
    /\ ret = [t \in Threads |-> Nil]
    /\ round = [k \in Ids |-> NoRound]
    /\ won = [k \in Ids |-> FALSE]
    /\ freed = [k \in Ids |-> FALSE]
    /\ tag = [t \in Threads |-> NoTag]
    /\ PassingOnNoId = FALSE
    /\ Error = ""
    /\ ErrorOverlap = ""
    /\ NoRequests
    /\ made = FALSE
    /\ redis = Nil
    /\ life = "new"
    /\ late = [t \in Threads |-> FALSE]

LifeNext ==
    \E t \in Threads :
        \/ \E op \in {"Init", "Destroy", "Save", "Remove"}, k \in Ids :
             LifeCall(t, op, k)
        \/ MemInitMake(t)
        \/ MemInitLock(t)
        \/ MemDestroy(t)
        \/ MemSaveNil(t)
        \/ MemUnlockFatal(t)
        \/ LifeMemStep(t)
        \/ \E l \in Lookups : RedisInit(t, l)
        \/ RedisDestroy(t)
        \/ RedisNil(t)
        \/ LiveRedisStep(t)
        \/ LifeReturn(t)

\* threads call Init, Destroy, Save and Remove of one store directly
LifeSpec == LifeInit /\ [][LifeNext]_vars

RedisLifeInit == LifeInit /\ Store = RedisIDStore

RedisLifeNext ==
    \E t \in Threads :
        \/ \E op \in {"Init", "Destroy", "Save", "Remove"}, k \in Ids :
             LifeCall(t, op, k)
        \/ \E l \in Lookups : RedisInit(t, l)
        \/ RedisDestroy(t)
        \/ RedisNil(t)
        \/ LiveRedisStep(t)
        \/ LifeReturn(t)

\* LifeSpec for the RedisIDStore alone
RedisLifeSpec == RedisLifeInit /\ [][RedisLifeNext]_vars

\* ------------------------------------------- properties of the life cycle
\* C13 (unusable after Destroy): a Save or Remove issued after Destroy, with
\* no Init since, does not return nil, and if it ends in a panic it does not
\* hold the lock of the store.
UnusableAfterDestroy ==
    \A t \in Threads :
        late[t] =>
            /\ pc[t] \in {"SaveRet", "RemoveRet"} => ret[t] # Nil
            /\ pc[t] \in PanicPCs => lock # t

\* C14 (Init of the RedisIDStore): a step of Init returns an error and does
\* not touch r.redis when env.Component returned an error or no component;
\* when it returns nil it has set r.redis to the component and r.Key is the
\* configured name, or "RequestID" if none was configured.
RedisInitFails ==
    [][\A t \in Threads, l \in Lookups :
         RedisInit(t, l) =>
            /\ (l.err # Nil \/ l.comp = Nil) =>
                 (ret'[t] # Nil /\ redis' = redis /\ redis' = Nil)
            /\ ret'[t] = Nil =>
                 /\ redis' # Nil /\ redis' = l.comp
                 /\ Key' # ""
                 /\ Key' = IF Key = "" THEN "RequestID" ELSE Key]_vars

\* Init has returned an error to a caller and the store has no handle
WitnessRedisInitFails ==
    \E t \in Threads :
        /\ Store = RedisIDStore /\ pc[t] = "InitRet"
        /\ ret[t] = ErrNotLoaded /\ redis = Nil /\ life = "new"

\* thread u is inside Save or Remove
InCall(u) == pc[u] \in (SavePCs \cup RemovePCs) \ {"SaveRet", "RemoveRet"}

\* C16 (lock discipline): every step of Init, Save, Remove or Destroy that
\* writes m.requests while another thread is inside Save or Remove is taken
\* by the thread that holds m.lock.
LockDiscipline ==
    [][\A t \in Threads :
         (/\ pc'[t] # pc[t]
          /\ requests' # requests \/ made' # made
          /\ \E u \in Threads \ {t} : InCall(u))
             => lock = t]_vars
\* ------------------------------------- callers of a store that may fail
SaveFaultInit == StoreInit /\ Store = RedisIDStore

SaveFaultNext ==
    \E t \in Threads :
        \/ \E op \in {"Save", "Remove"}, k \in Ids : LifeCall(t, op, k)
        \/ RedisStep(t)
        \/ RedisSaveFail(t)
        \/ LifeReturn(t)

\* threads call Save and Remove of a RedisIDStore whose SADD may fail
SaveFaultSpec == SaveFaultInit /\ [][SaveFaultNext]_vars

\* C15 (Save of the RedisIDStore classifies its result): when the SADD is
\* answered, Save returns nil exactly if the id was not a member and now is,
\* and ErrRequestIDExist exactly if it was a member already; when the remote
\* call fails, Save returns an error that is neither nil nor
\* ErrRequestIDExist, and the set is as it was.
SaveClassifies ==
    [][\A t \in Threads :
         /\ RedisSave(t) =>
              /\ ret'[t] = Nil <=>
                   (<<Key, id[t]>> \notin remote /\ <<Key, id[t]>> \in remote')
              /\ ret'[t] = ErrRequestIDExist <=> <<Key, id[t]>> \in remote
         /\ RedisSaveFail(t) =>
              /\ ret'[t] \notin {Nil, ErrRequestIDExist}
              /\ remote' = remote]_vars

\* one Save has returned ErrRequestIDExist and another, for an id that is a
\* member too, the error of the failed remote call
WitnessSaveClassifies ==
    \E t, u \in Threads :
        /\ pc[t] = "SaveRet" /\ ret[t] = ErrRequestIDExist
        /\ pc[u] = "SaveRet" /\ ret[u] = ErrTransport
        /\ <<Key, id[u]>> \in remote
\* ------------------------------------------- handlers that always return
ReturnInit == Init /\ Store = MemIDStore

ReturnNext ==
    \E t \in Threads :
        \/ \E m \in Methods, ip \in RemoteIPs, h \in Headers : Filter(t, m, ip, h)
        \/ FilterAfterSave(t)
        \/ HandlerReturn(t)
        \/ FilterAfterRemove(t)
        \/ Finish(t)
        \/ MemStep(t)

\* RequestId over a MemIDStore, with a chain that returns from every call
ReturnSpec == ReturnInit /\ [][ReturnNext]_vars

\* thread t serves a request whose Save has put its id into the map and
\* whose Remove has not yet deleted it
Holding(t) ==
    \/ pc[t] \in {"Save66", "SaveRet"} /\ ret[t] = Nil
    \/ pc[t] \in {"chain138", "Remove71", "Remove72"}

\* C17 (no leaked claims): over a MemIDStore and a chain that returns, the
\* keys of the map are exactly the ids of the requests between the insert of
\* their Save and the delete of their Remove, one request per id; a request
\* that is a GET, has no token or was rejected holds no key, and the map is
\* empty when no request is being served.
NoLeakedClaims ==
    /\ requests = {id[t] : t \in {u \in Threads : Holding(u)}}
    /\ \A t, u \in Threads : (Holding(t) /\ Holding(u) /\ id[t] = id[u]) => t = u
    /\ \A t \in Threads :
         Holding(t) => (req[t].method # "GET" /\ req[t].header # "" /\ err[t] = Nil)
    /\ (\A t \in Threads : pc[t] = "idle") => requests = {}

\* a request is in its handler, its id the one key of the map, while a
\* request of the same ip and token has been rejected
WitnessNoLeakedClaims ==
    \E t, u \in Threads :
        /\ pc[t] = "chain138" /\ requests = {id[t]}
        /\ pc[u] = "done" /\ resp[u].status = 403 /\ id[u] = id[t]
\* C18 (frame of Save and Remove): a step inside Save(k) or Remove(k) leaves
\* every key other than k as it was; Remove never adds k and Save never
\* removes it; Save changes the set only in the step that decides its
\* result, and only if that result is nil, so that a Save that returns
\* ErrRequestIDExist has left the whole set unchanged.
FrameOfStore ==
    [][\A t \in Threads :
         (InCall(t) /\ pc'[t] # pc[t]) =>
            /\ ClaimedIds' \ {id[t]} = ClaimedIds \ {id[t]}
            /\ pc[t] \in RemovePCs => ClaimedIds' \subseteq ClaimedIds
            /\ pc[t] \in SavePCs =>
                 /\ ClaimedIds \subseteq ClaimedIds'
                 /\ ClaimedIds' # ClaimedIds =>
                      /\ pc[t] \in {"Save61", "Save95"}
                      /\ ret'[t] = Nil
                 /\ pc[t] = "Save66" => ret'[t] = ret[t]]_vars

\* a Save has returned ErrRequestIDExist while every id is claimed
WitnessFrameOfStore ==
    \E t \in Threads :
        /\ pc[t] = "SaveRet" /\ ret[t] = ErrRequestIDExist
        /\ ClaimedIds = Ids
\* ------------------------------------------------ Init of the RequestId
\* a RequestId as configured, before Init, over a store as constructed
BootInit ==
    /\ requests = {}
    /\ lock = NoThread
    /\ Key = ""
    /\ remote = {}
    /\ pc = [t \in Threads |-> "idle"]
    /\ id = [t \in Threads |-> ""]
    /\ has = [t \in Threads |-> FALSE]
    /\ ret = [t \in Threads |-> Nil]
    /\ round = [k \in Ids |-> NoRound]
    /\ won = [k \in Ids |-> FALSE]
    /\ freed = [k \in Ids |-> FALSE]
    /\ tag = [t \in Threads |-> NoTag]
    /\ NoRequests
    /\ \E c \in Configs :
         /\ Store = c.Store
         /\ PassingOnNoId = c.PassingOnNoId
         /\ Error = c.Error
         /\ ErrorOverlap = c.ErrorOverlap
    /\ made = FALSE
    /\ redis = Nil
    /\ life = "new"
    /\ late = [t \in Threads |-> FALSE]

\* lines 107-115: RequestId.Init(env), l being what env.Component returns to
\* the Init of a RedisIDStore; line 109 drops the error of ri.Store.Init and
\* line 114 returns nil
RequestIdInitCall(l) ==
    /\ life = "new"
    /\ LET store == DefvalNil(Store, MemIDStore) IN
         /\ Store' = store
         /\ IF store = MemIDStore
              THEN /\ requests' = {}
                   /\ made' = TRUE
                   /\ lock' = NoThread
                   /\ UNCHANGED <<Key, redis>>
              ELSE /\ LET r == RedisInitResult(l, redis, Key) IN
                        /\ redis' = r.redis
                        /\ Key' = r.Key
                   /\ UNCHANGED <<requests, made, lock>>
    /\ Error' = DefvalString(Error, "header value X-Request-Id can't be empty")
    /\ ErrorOverlap' =
         DefvalString(ErrorOverlap, "request already accepted before, please wait")
    /\ life' = "ready"
    /\ UNCHANGED <<remote, callVars, histVars, PassingOnNoId, reqVars, note,
                   leaked, late>>

\* a step of Filter, which the server calls once Init has returned nil
ServeStep(t) ==
    /\ life = "ready"
    /\ FilterStep(t)

BootNext ==
    \/ \E l \in Lookups : RequestIdInitCall(l)
    \/ \E t \in Threads :
        \/ ServeStep(t)
        \/ MemStep(t)
        \/ LiveRedisStep(t)
        \/ RedisNil(t)

\* RequestId from its Init on
BootSpec == BootInit /\ [][BootNext]_vars

\* the store under use has what its Save and Remove need
StoreUsable == IF Store = MemIDStore THEN made ELSE redis # Nil

\* C19 (Init of the RequestId reflects the Init of its store): once
\* RequestId.Init has returned nil the store under use is an initialized one,
\* the MemIDStore if none was configured, and no call of Filter ends in the
\* panic of a store that lacks its handle.
InitReflectsStore ==
    life = "ready" =>
        /\ Store \in {MemIDStore, RedisIDStore}
        /\ StoreUsable
        /\ \A t \in Threads : pc[t] # "panicNil"

\* ------------------------------------------- the lock of the MemIDStore
LockInit == StoreInit /\ Store = MemIDStore

LockNext ==
    \E t \in Threads :
        \/ \E op \in {"Save", "Remove"}, k \in Ids : LifeCall(t, op, k)
        \/ MemStep(t)
        \/ LifeReturn(t)

\* threads call Save and Remove of an initialized MemIDStore; a thread that
\* can take a step takes one (the scheduler preempts), and a thread waiting
\* in Lock gets the lock if it is freed again and again (a sync mutex hands
\* the lock to a waiter that has waited long)
LockSpec ==
    LockInit /\ [][LockNext]_vars /\ \A t \in Threads : SF_vars(MemStep(t))

\* C20 (the lock is always released): a thread that is not inside Save or
\* Remove does not hold the lock, and a thread inside Save or Remove comes
\* to return from it, the lock not held by it.
LockReleased ==
    /\ [](\A t \in Threads : ~InCall(t) => lock # t)
    /\ \A t \in Threads :
         InCall(t) ~> (pc[t] \in {"SaveRet", "RemoveRet"} /\ lock # t)

\* a Save waits for the lock while a Remove of the same id holds it
WitnessLockReleased ==
    \E t, u \in Threads :
        /\ pc[t] = "Save59" /\ pc[u] = "Remove72" /\ lock = u
        /\ id[t] = id[u]
====
